---- MODULE Spec2Model ----
(***************************************************************************)
(* TTourney: sets, matches and the Swiss-system group.                     *)
(*                                                                         *)
(* Six specifications share the variables below:                           *)
(*   SpecSet    a single Set and its is_valid / winner methods             *)
(*   SpecMatch  a single Match driven by add_set and set_sets              *)
(*   Spec       a SwissSystemGroup: round generation, result submission,   *)
(*              exclusions and the stats memo                              *)
(*   SpecRank   a group with scheduled matches: result submission, the     *)
(*              Buchholz and ranking queries and their memos               *)
(*   SpecBerger the Berger table and result submission                     *)
(*   SpecPlayer a Player and its round trip through as_dict / from_dict    *)
(*                                                                         *)
(* Conventions.  Python None is NoneId for a player id or a round number   *)
(* and the empty tuple for a result.  A player is its id (a positive       *)
(* number).  A Set is the pair <<points1, points2>>.  A score given by a   *)
(* caller is a tagged record (tuple or string); a string is the sequence   *)
(* of its characters.                                                      *)
(*                                                                         *)
(* The group methods are modelled by their control and data flow.  Names   *)
(* the source leaves unresolved are read as the surrounding code fixes     *)
(* them: self.round starts at 0 (gen_matches tests it against 0),          *)
(* self.wins(id) is _get_wins(id), the set display around the two lists    *)
(* of _get_played_matches is the set of their elements, and a Match built  *)
(* without a round or without a second player is a record whose field is   *)
(* None.  The assignment to the read-only property ranking in              *)
(* BaseGroup.__init__ is left out.  No set is submitted to a bye.          *)
(* In _get_ranking, _get_buchholz_scores(player.id, round) is read as the   *)
(* Buchholz score of the player at the cutoff, -player_score as the        *)
(* negated numeric id, m.involves_players(p1, p2) as "m is between p1 and  *)
(* p2", _get_matches_until_round(round) as the matches of rounds up to the *)
(* cutoff and is_complete() as is_completed.                               *)
(* The balls columns of _get_stats sum pl.col("sets").list[0] (or          *)
(* .list[1]): a whole set of the match, not points.  No point total comes  *)
(* of it and the model gives these columns None.                           *)
(***************************************************************************)
EXTENDS Integers, Sequences, FiniteSets, TLC

VARIABLES
    set,               \* SpecSet: the Set under test
    setOut,            \* SpecSet: outcome of the last method call on it
    match,             \* SpecMatch: the Match
    call,              \* SpecMatch: the last call made on the Match
    players,           \* Spec: BaseGroup.players (ids, in list order)
    score,             \* Spec: Player.score of each player
    round,             \* Spec: SwissSystemGroup.round
    matches,           \* Spec: BaseGroup.matches
    excluded_matches,  \* Spec: BaseGroup.excluded_matches
    stats_memo,        \* Spec: BaseGroup._stats (cutoff -> stats table)
    lastGen,           \* Spec: what the last gen_matches call saw and built
    buchholz_memo,     \* SpecRank: BaseGroup._buchholz_scores (cutoff -> table)
    rounds,            \* SpecBerger: the rounds the Berger table built
    player,            \* SpecPlayer: the Player under test
    playerOut          \* SpecPlayer: what the last from_dict(as_dict()) returned

setVars   == <<set, setOut>>
matchVars == <<match, call>>
groupVars == <<players, score, round, matches, excluded_matches, stats_memo, lastGen,
               buchholz_memo, rounds>>
playerVars == <<player, playerOut>>
vars      == <<set, setOut, match, call, players, score, round, matches,
               excluded_matches, stats_memo, lastGen, buchholz_memo, rounds,
               player, playerOut>>

(***************************************************************************)
(* Bounds                                                                  *)
(***************************************************************************)
MaxPoints == 13      \* SpecSet: points range over -NegPoints..MaxPoints
NegPoints == 1
MaxSets == 4         \* SpecMatch: sets stored in the match
MaxBulk == 2         \* SpecMatch: arguments of one set_sets call

NoneId == 0

Range(s) == {s[i] : i \in DOMAIN s}

(***************************************************************************)
(* Set                                                                     *)
(***************************************************************************)
IsValid_NoMargin(s) ==
    IF s[1] >= 11 /\ s[1] >= s[2] + 1 THEN TRUE
    ELSE IF s[2] >= 11 /\ s[2] >= s[1] + 1 THEN TRUE
    ELSE FALSE

IsValid(s) ==
    IF s[1] >= 11 /\ s[1] >= s[2] + 2 THEN TRUE
    ELSE IF s[2] >= 11 /\ s[2] >= s[1] + 2 THEN TRUE
    ELSE FALSE

\* Set.winner: raises ValueError on a set that is not valid.
SetWinnerRaises(s) == ~IsValid(s)

SetWinner(s) == IF s[1] > s[2] THEN 1 ELSE 2

(***************************************************************************)
(* Score inputs and Set.from_any                                           *)
(***************************************************************************)
Tup(a, b) == [kind |-> "tuple", a |-> a, b |-> b, text |-> <<>>]
Str(t)    == [kind |-> "str", a |-> 0, b |-> 0, text |-> t]
\* The dict Set.as_dict makes of the set s, as an argument of add_set.
Dict(s)   == [kind |-> "dict", a |-> s[1], b |-> s[2], text |-> <<>>]

Digits == <<"0", "1", "2", "3", "4", "5", "6", "7", "8", "9">>

IsDigit(c) == \E d \in DOMAIN Digits : Digits[d] = c

DigitVal(c) == (CHOOSE d \in DOMAIN Digits : Digits[d] = c) - 1

RECURSIVE NatVal(_)
NatVal(t) ==
    IF t = <<>> THEN 0
    ELSE 10 * NatVal(SubSeq(t, 1, Len(t) - 1)) + DigitVal(t[Len(t)])

\* int(text): an optional sign and then one or more digits.
IntBody(t) ==
    IF t # <<>> /\ t[1] \in {"+", "-"} THEN Tail(t) ELSE t

IntRaises(t) ==
    \/ IntBody(t) = <<>>
    \/ \E i \in DOMAIN IntBody(t) : ~IsDigit(IntBody(t)[i])

IntVal(t) ==
    IF t # <<>> /\ t[1] = "-" THEN 0 - NatVal(IntBody(t)) ELSE NatVal(IntBody(t))

Colons(t) == {i \in DOMAIN t : t[i] = ":"}

ShortWin_Eleven(points) == 11

\* The winner's points of the signed shorthand.
ShortWin(points) == IF points <= 9 THEN 11 ELSE points + 2

Raised == [raised |-> TRUE, set |-> <<0, 0>>]
Made(s) == [raised |-> FALSE, set |-> s]

FromString(t) ==
    IF Colons(t) # {}
    THEN IF Cardinality(Colons(t)) # 1 THEN Raised
         ELSE LET c  == CHOOSE i \in Colons(t) : TRUE
                  t1 == SubSeq(t, 1, c - 1)
                  t2 == SubSeq(t, c + 1, Len(t))
              IN  IF IntRaises(t1) \/ IntRaises(t2) THEN Raised
                  ELSE Made(<<IntVal(t1), IntVal(t2)>>)
    ELSE IF t = <<>> THEN Raised
    ELSE LET body == IF t[1] \in {"+", "-"} THEN Tail(t) ELSE t
         IN  IF IntRaises(body) THEN Raised
             ELSE LET points == IntVal(body)
                  IN  IF t[1] = "+" THEN Made(<<ShortWin(points), points>>)
                      ELSE IF t[1] = "-" THEN Made(<<points, ShortWin(points)>>)
                      ELSE Made(<<ShortWin(points), points>>)

FromTuple(sc) == Made(<<sc.a, sc.b>>)

FromAny(sc) ==
    IF sc.kind = "str" THEN FromString(sc.text)
    ELSE IF sc.kind = "tuple" THEN FromTuple(sc)
    ELSE Raised

(***************************************************************************)
(* Match                                                                   *)
(***************************************************************************)
NewMatch(p1, p2, r) ==
    [player1 |-> p1, player2 |-> p2, round |-> r, sets |-> <<>>,
     result |-> <<>>, winner |-> NoneId, looser |-> NoneId]

SetsWonBy(sets, side) ==
    Cardinality({i \in DOMAIN sets : SetWinner(sets[i]) = side})

UpdateResult(m) ==
    IF m.sets = <<>>
    THEN [m EXCEPT !.result = <<>>, !.winner = NoneId, !.looser = NoneId]
    ELSE LET wins_p1 == SetsWonBy(m.sets, 1)
             wins_p2 == SetsWonBy(m.sets, 2)
         IN  IF wins_p1 > wins_p2
             THEN [m EXCEPT !.result = <<wins_p1, wins_p2>>,
                            !.winner = m.player1, !.looser = m.player2]
             ELSE IF wins_p2 > wins_p1
             THEN [m EXCEPT !.result = <<wins_p1, wins_p2>>,
                            !.winner = m.player2, !.looser = m.player1]
             ELSE [m EXCEPT !.result = <<wins_p1, wins_p2>>,
                            !.winner = NoneId, !.looser = NoneId]

AddSet_AppendFirst(m, sc) ==
    LET s == FromAny(sc)
    IN  IF s.raised THEN [m |-> m, raised |-> TRUE]
        ELSE IF ~IsValid(s.set)
        THEN [m |-> [m EXCEPT !.sets = Append(@, s.set)], raised |-> TRUE]
        ELSE [m |-> UpdateResult([m EXCEPT !.sets = Append(@, s.set)]),
              raised |-> FALSE]

\* Match.add_set: the match after the call, and whether the call raised.
AddSet(m, sc) ==
    LET s == FromAny(sc)
    IN  IF s.raised THEN [m |-> m, raised |-> TRUE]
        ELSE IF ~IsValid(s.set) THEN [m |-> m, raised |-> TRUE]
        ELSE [m |-> UpdateResult([m EXCEPT !.sets = Append(@, s.set)]),
              raised |-> FALSE]

RECURSIVE AddEach(_, _)
AddEach(m, scs) ==
    IF scs = <<>> THEN [m |-> m, raised |-> FALSE]
    ELSE LET r == AddSet(m, Head(scs))
         IN  IF r.raised THEN r ELSE AddEach(r.m, Tail(scs))

\* Match.set_sets
SetSets(m, scs) == AddEach([m EXCEPT !.sets = <<>>], scs)

IsCompleted(m) == m.winner # NoneId

(***************************************************************************)
(* Player, and the dict forms of Set, Player and Match                     *)
(* Field values are numbers standing for the strings and ints of the       *)
(* fields; NoneId is None.  No player is created with id "", so the id     *)
(* that __post_init__ generates is left out.                               *)
(***************************************************************************)
\* Player(...): the arguments in the order of the dataclass fields.
NewPlayer(first_name, last_name, score_, start_number, age, gender, club, id) ==
    [first_name |-> first_name, last_name |-> last_name, score |-> score_,
     start_number |-> start_number, age |-> age, gender |-> gender,
     club |-> club, id |-> id,
     name |-> IF last_name = NoneId THEN <<first_name>> ELSE <<first_name, last_name>>]

PlayerKeys ==
    {"id", "first name", "last name", "start number", "score", "age", "gender", "club"}

\* Player.as_dict
PlayerAsDict(p) ==
    [k \in PlayerKeys |->
        CASE k = "id" -> p.id
          [] k = "first name" -> p.first_name
          [] k = "last name" -> p.last_name
          [] k = "start number" -> p.start_number
          [] k = "score" -> p.score
          [] k = "age" -> p.age
          [] k = "gender" -> p.gender
          [] k = "club" -> p.club]

\* Player.from_dict: the values are passed by position.
PlayerFromDict(data) ==
    NewPlayer(data["first name"], data["last name"], data["score"],
              data["start number"], data["id"], data["age"], data["gender"],
              data["club"])

\* The players of the matches, by id: one with a club, one without.
PlayerWithId(id) ==
    IF id = 1 THEN NewPlayer(11, 12, 5, 1, 30, 1, 7, 1)
    ELSE NewPlayer(10 * id + 1, 10 * id + 2, 4, id, 31, 2, NoneId, id)

\* Set.as_dict
SetAsDict(s) ==
    [points1 |-> s[1], points2 |-> s[2], winner |-> SetWinner(s),
     looser |-> IF SetWinner(s) = 2 THEN 1 ELSE 2, points_diff |-> s[1] - s[2]]

\* Match.id
MatchId(p1_id, p2_id) == <<p1_id, p2_id>>

\* Match.as_dict
MatchAsDict(m) ==
    [player1 |-> PlayerAsDict(PlayerWithId(m.player1)),
     player2 |-> PlayerAsDict(PlayerWithId(m.player2)),
     round |-> m.round,
     sets |-> [k \in DOMAIN m.sets |-> SetAsDict(m.sets[k])],
     result |-> m.result, winner |-> m.winner, looser |-> m.looser,
     id |-> MatchId(m.player1, m.player2), is_completed |-> IsCompleted(m)]

\* Match.from_dict: the players it builds, the match, and whether it raised.
\* Every dict of data["sets"] goes to add_set as it is.
MatchFromDict(data) ==
    LET p1 == PlayerFromDict(data.player1)
        p2 == PlayerFromDict(data.player2)
        m0 == NewMatch(p1.id, p2.id, data.round)
        r  == IF data.sets # <<>>
              THEN AddEach(m0, [k \in DOMAIN data.sets |->
                                   Dict(<<data.sets[k].points1, data.sets[k].points2>>)])
              ELSE [m |-> m0, raised |-> FALSE]
    IN  [raised |-> r.raised, m |-> r.m, player1 |-> p1, player2 |-> p2]

(***************************************************************************)
(* SpecPlayer: a Player and its round trip                                 *)
(***************************************************************************)
\* The players under test: every optional field given and not given.
PlayerInputs ==
    { NewPlayer(11, last_name, score_, start_number, age, gender, club, id) :
        last_name \in {NoneId, 12}, score_ \in {0, 5}, start_number \in {0, 3},
        age \in {NoneId, 30}, gender \in {NoneId, 1}, club \in {NoneId, 7},
        id \in {1, 2} }

NoPlayerCall == [called |-> FALSE, player |-> NewPlayer(0, 0, 0, 0, 0, 0, 0, 0)]

InitPlayer == player \in PlayerInputs /\ playerOut = NoPlayerCall

IdlePlayer == player = NewPlayer(0, 0, 0, 0, 0, 0, 0, 0) /\ playerOut = NoPlayerCall

\* Player.from_dict(player.as_dict())
PlayerRoundTrip ==
    /\ playerOut' = [called |-> TRUE, player |-> PlayerFromDict(PlayerAsDict(player))]
    /\ UNCHANGED player

\* C21: Player.from_dict(p.as_dict()) has every field of p: names, rating,
\* starting number, age, gender, club, and the same identifier.
C21_PlayerRoundTrip ==
    playerOut.called => playerOut.player = player

(***************************************************************************)
(* SpecSet: a Set and the calls on it                                      *)
(***************************************************************************)
Points == (0 - NegPoints)..MaxPoints

MaxShort == 11       \* the shorthand strings name 0..MaxShort points

\* The decimal digits of a natural number, as the f-string writes them.
RECURSIVE NatStr(_)
NatStr(n) ==
    IF n < 10 THEN <<Digits[n + 1]>>
    ELSE NatStr(n \div 10) \o <<Digits[(n % 10) + 1]>>

IntStr(i) == IF i < 0 THEN <<"-">> \o NatStr(0 - i) ELSE NatStr(i)

\* Set.__str__
SetStr(s) == IntStr(s[1]) \o <<":">> \o IntStr(s[2])

\* The strings given to from_string: the signed and the bare shorthand of
\* 0..MaxShort, and the literal of the Set under test.
StringInputs ==
    { sign \o NatStr(n) : sign \in {<<"+">>, <<"-">>, <<>>}, n \in 0..MaxShort }
    \cup { SetStr(set) }


NoSetCall == [op |-> "none", raised |-> FALSE, valid |-> FALSE, winner |-> 0,
              text |-> <<>>]

InitSet == set \in Points \X Points /\ setOut = NoSetCall

IdleSet == set = <<0, 0>> /\ setOut = NoSetCall

CallIsValid ==
    /\ setOut' = [op |-> "is_valid", raised |-> FALSE, valid |-> IsValid(set),
                  winner |-> 0, text |-> <<>>]
    /\ UNCHANGED set

CallWinner ==
    /\ setOut' = [op |-> "winner", raised |-> SetWinnerRaises(set), valid |-> FALSE,
                  winner |-> IF SetWinnerRaises(set) THEN 0 ELSE SetWinner(set),
                  text |-> <<>>]
    /\ UNCHANGED set

\* Set.from_string(text): the Set under test becomes the Set it returns.
CallFromString ==
    \E text \in StringInputs :
        /\ set' = IF FromString(text).raised THEN set ELSE FromString(text).set
        /\ setOut' = [op |-> "from_string", raised |-> FromString(text).raised,
                      valid |-> FALSE, winner |-> 0, text |-> text]

(***************************************************************************)
(* SpecMatch: a Match and the calls on it                                  *)
(***************************************************************************)
ScoreInputs ==
    { Tup(11, 9), Tup(9, 11), Tup(5, 3), Tup(11, 0 - 1),
      Str(<<"+", "9">>), Str(<<"-", "3">>), Str(<<"1", "2", ":", "1", "0">>),
      Str(<<"x">>) }

BulkInputs == UNION { [1..k -> ScoreInputs] : k \in 0..MaxBulk }

NoMatchCall == [op |-> "none", args |-> <<>>, raised |-> FALSE]

InitMatch == match = NewMatch(1, 2, 1) /\ call = NoMatchCall

IdleMatch == InitMatch

MatchAddSet ==
    \E sc \in ScoreInputs :
        /\ Len(match.sets) < MaxSets
        /\ match' = AddSet(match, sc).m
        /\ call' = [op |-> "add_set", args |-> <<sc>>, raised |-> AddSet(match, sc).raised]

MatchSetSets ==
    \E scs \in BulkInputs :
        /\ match' = SetSets(match, scs).m
        /\ call' = [op |-> "set_sets", args |-> scs, raised |-> SetSets(match, scs).raised]

(***************************************************************************)
(* Claims about Set and Match                                              *)
(***************************************************************************)
\* The 11-point / 2-margin rule, stated on the two scores.
RuleHolds(s) ==
    \/ s[1] >= 11 /\ s[1] - s[2] >= 2
    \/ s[2] >= 11 /\ s[2] - s[1] >= 2

WonSets(sets, side) ==
    Cardinality({i \in DOMAIN sets :
                    IF side = 1 THEN sets[i][1] > sets[i][2] ELSE sets[i][2] > sets[i][1]})

\* result, winner and looser are the ones the stored sets give.
DerivedFromSets(m) ==
    IF m.sets = <<>>
    THEN m.result = <<>> /\ m.winner = NoneId /\ m.looser = NoneId
    ELSE /\ m.result = <<WonSets(m.sets, 1), WonSets(m.sets, 2)>>
         /\ m.winner = (IF m.result[1] > m.result[2] THEN m.player1
                        ELSE IF m.result[2] > m.result[1] THEN m.player2 ELSE NoneId)
         /\ m.looser = (IF m.result[1] > m.result[2] THEN m.player2
                        ELSE IF m.result[2] > m.result[1] THEN m.player1 ELSE NoneId)

\* C1: after any sequence of add_set and set_sets calls, successful or failed,
\* the match's result is (sets won by side 1, sets won by side 2) of the stored
\* sets, winner and looser are the ids that result gives, and all three are
\* None when no set is stored.
C1_ResultFollowsSets == DerivedFromSets(match)

\* C2: a match is completed if and only if one side has won 3 of the stored
\* sets; at 1:0, 2:0 or 2:1 it is not completed.
C2_CompletedIffThreeSets ==
    IsCompleted(match) <=> (WonSets(match.sets, 1) >= 3 \/ WonSets(match.sets, 2) >= 3)

\* C3: set_sets is atomic: a set_sets call that fails leaves sets, result,
\* winner and looser as they were before the call, and after any set_sets call
\* the stored result, winner and looser agree with the stored sets.
C3_SetSetsAtomic ==
    [][call'.op = "set_sets" =>
          /\ call'.raised => match' = match
          /\ DerivedFromSets(match')]_vars

\* C4: add_set with a set that fails the 11-point / 2-margin rule raises and
\* leaves sets, result, winner and looser unchanged; with a valid set it
\* appends exactly that set at the end of the list.
C4_AddSetAppendsOrRejects ==
    [][(call'.op = "add_set" /\ ~FromAny(call'.args[1]).raised) =>
          LET s == FromAny(call'.args[1]).set
          IN  IF RuleHolds(s)
              THEN ~call'.raised /\ match'.sets = Append(match.sets, s)
              ELSE call'.raised /\ match' = match]_vars

\* An invalid set was refused by a match that already holds sets.
C4_Witness ==
    /\ call.op = "add_set"
    /\ ~FromAny(call.args[1]).raised
    /\ ~RuleHolds(FromAny(call.args[1]).set)
    /\ call.raised
    /\ Len(match.sets) >= 2

\* C5: is_valid is true exactly when one side has at least 11 points and leads
\* by at least 2; winner raises on a set that is not valid and is otherwise 1
\* when points1 > points2 and 2 when points2 > points1.
C5_SetValidity ==
    /\ setOut.op = "is_valid" => (setOut.valid <=> RuleHolds(set))
    /\ setOut.op = "winner" =>
          IF RuleHolds(set)
          THEN /\ ~setOut.raised
               /\ set[1] > set[2] => setOut.winner = 1
               /\ set[2] > set[1] => setOut.winner = 2
          ELSE setOut.raised

\* winner was read from a set that side 2 won past 11 points.
C5_Witness ==
    /\ setOut.op = "winner"
    /\ ~setOut.raised
    /\ setOut.winner = 2
    /\ set[2] > 11

\* The winner's points the shorthand of n stands for.
RefShortWin(n) == IF n <= 9 THEN 11 ELSE n + 2

\* C24: from_string turns "+n" and the bare "n" into (w, n) and "-n" into
\* (n, w), w being 11 for n <= 9 and n + 2 otherwise; the set is valid and its
\* winner is side 1 for "+" and side 2 for "-"; and the literal str(s) of a set
\* s is turned into s again.
C24_ShorthandNormalization ==
    [][setOut'.op = "from_string" =>
          /\ \A n \in 0..MaxShort :
                /\ setOut'.text \in {<<"+">> \o NatStr(n), NatStr(n)} =>
                      /\ ~setOut'.raised
                      /\ set' = <<RefShortWin(n), n>>
                      /\ RuleHolds(set')
                      /\ ~SetWinnerRaises(set') /\ SetWinner(set') = 1
                /\ setOut'.text = <<"-">> \o NatStr(n) =>
                      /\ ~setOut'.raised
                      /\ set' = <<n, RefShortWin(n)>>
                      /\ RuleHolds(set')
                      /\ ~SetWinnerRaises(set') /\ SetWinner(set') = 2
          /\ setOut'.text = SetStr(set) => ~setOut'.raised /\ set' = set]_vars

\* from_string was given "-10" and returned the set 10:12.
C24_Witness ==
    /\ setOut.op = "from_string"
    /\ setOut.text = <<"-", "1", "0">>
    /\ set = <<10, 12>>


\* C25: once a match is completed with winner w, every add_set that succeeds
\* leaves it completed with the same winner w.
C25_CompletionMonotonic ==
    [][(call'.op = "add_set" /\ ~call'.raised /\ IsCompleted(match)) =>
          IsCompleted(match') /\ match'.winner = match.winner]_vars

\* C23: every set stored in the match, whatever form of input it was built
\* from, has two scores that are not negative.
C23_StoredScoresNonNegative ==
    \A k \in DOMAIN match.sets : match.sets[k][1] >= 0 /\ match.sets[k][2] >= 0

\* C20: for every match, with zero or more sets, Match.from_dict of its
\* as_dict succeeds and gives back the two competitors, the round, the sets in
\* order and the result, winner, loser, id and completion of the match.
C20_MatchRoundTrip ==
    LET r == MatchFromDict(MatchAsDict(match))
    IN  /\ ~r.raised
        /\ r.player1 = PlayerWithId(match.player1)
        /\ r.player2 = PlayerWithId(match.player2)
        /\ r.m.round = match.round
        /\ r.m.sets = match.sets
        /\ r.m.result = match.result
        /\ r.m.winner = match.winner
        /\ r.m.looser = match.looser
        /\ MatchId(r.m.player1, r.m.player2) = MatchId(match.player1, match.player2)
        /\ IsCompleted(r.m) = IsCompleted(match)

(***************************************************************************)
(* BaseGroup                                                               *)
(***************************************************************************)
Max(S) == CHOOSE x \in S : \A y \in S : y <= x

Min(S) == CHOOSE x \in S : \A y \in S : x <= y

\* list.sort(key=..., reverse=True): descending by key, equal keys keep their
\* order.  key is a function on the elements.
RECURSIVE SortDesc(_, _)
SortDesc(seq, key) ==
    IF seq = <<>> THEN <<>>
    ELSE LET init == SortDesc(SubSeq(seq, 1, Len(seq) - 1), key)
             x    == seq[Len(seq)]
             k    == Cardinality({i \in DOMAIN init : key[init[i]] >= key[x]})
         IN  SubSeq(init, 1, k) \o <<x>> \o SubSeq(init, k + 1, Len(init))

MatchesPerRound == Len(players) \div 2

\* rounds_completed: the largest round number whose completed matches number
\* matches_per_round; None when matches exist and no round qualifies.
RoundsCompleted ==
    IF Len(matches) = 0 THEN 0
    ELSE LET done == {i \in DOMAIN matches : IsCompleted(matches[i])}
             full == {r \in {matches[i].round : i \in done} \ {NoneId} :
                         Cardinality({i \in done : matches[i].round = r})
                             = MatchesPerRound}
         IN  IF full = {} THEN NoneId ELSE Max(full)

\* The rows kept by filter(round <= cutoff).filter(is_completed); a comparison
\* with None keeps no row.
CompletedUntil(cutoff) ==
    {i \in DOMAIN matches :
        /\ matches[i].round # NoneId
        /\ cutoff # NoneId
        /\ matches[i].round <= cutoff
        /\ IsCompleted(matches[i])}

Involves(m, p) == m.player1 = p \/ m.player2 = p

RECURSIVE SumOver(_, _)
SumOver(S, f) ==
    IF S = {} THEN 0
    ELSE LET x == CHOOSE y \in S : TRUE IN f[x] + SumOver(S \ {x}, f)

\* .sum() over the column of sets picked by sets.list[0] / sets.list[1]: the
\* rows are whole sets, so no number results.
SumOfPickedSets(rows, column) == NoneId

\* The table _get_stats builds for a cutoff.
ComputeStats(cutoff) ==
    [p \in Range(players) |->
        LET mine == {i \in CompletedUntil(cutoff) : Involves(matches[i], p)}
            won  == [i \in mine |-> IF matches[i].player1 = p
                                    THEN matches[i].result[1] ELSE matches[i].result[2]]
            lost == [i \in mine |-> IF matches[i].player1 = p
                                    THEN matches[i].result[2] ELSE matches[i].result[1]]
            picked_won  == [i \in mine |-> IF matches[i].player1 = p THEN 1 ELSE 2]
            picked_lost == [i \in mine |-> IF matches[i].player1 = p THEN 2 ELSE 1]
        IN  [wins |-> Cardinality({i \in mine : matches[i].winner = p}),
             losses |-> Cardinality({i \in mine : matches[i].winner # p}),
             sets_won |-> SumOver(mine, won),
             sets_lost |-> SumOver(mine, lost),
             balls_won |-> SumOfPickedSets(mine, picked_won),
             balls_lost |-> SumOfPickedSets(mine, picked_lost),
             set_difference |-> SumOver(mine, won) - SumOver(mine, lost),
             ball_difference |-> SumOfPickedSets(mine, picked_won)
                                     - SumOfPickedSets(mine, picked_lost)]]

\* _get_stats(round): the memoised table when the cutoff is a key of _stats.
GetStats(cutoff) ==
    IF cutoff \in DOMAIN stats_memo THEN stats_memo[cutoff] ELSE ComputeStats(cutoff)

MemoAfterGetStats(cutoff) ==
    IF cutoff \in DOMAIN stats_memo THEN stats_memo
    ELSE [c \in DOMAIN stats_memo \cup {cutoff} |->
             IF c = cutoff THEN ComputeStats(cutoff) ELSE stats_memo[c]]

\* The table _get_buchholz_scores builds for a cutoff from the stats table
\* st: per player the wins of the distinct opponents met in completed matches
\* up to the cutoff.
ComputeBuchholz(cutoff, st) ==
    [p \in Range(players) |->
        LET mine == {i \in CompletedUntil(cutoff) : Involves(matches[i], p)}
            opponent_ids == {IF matches[i].player1 = p THEN matches[i].player2
                             ELSE matches[i].player1 : i \in mine}
            rows == opponent_ids \cap DOMAIN st
        IN  SumOver(rows, [o \in rows |-> st[o].wins])]

\* _get_buchholz_scores(round): the memoised table when there is one, built
\* from _get_stats(round) otherwise.
GetBuchholzScores(cutoff) ==
    IF cutoff \in DOMAIN buchholz_memo THEN buchholz_memo[cutoff]
    ELSE ComputeBuchholz(cutoff, GetStats(cutoff))

BuchholzMemoAfterGet(cutoff) ==
    IF cutoff \in DOMAIN buchholz_memo THEN buchholz_memo
    ELSE [c \in DOMAIN buchholz_memo \cup {cutoff} |->
             IF c = cutoff THEN ComputeBuchholz(cutoff, GetStats(cutoff))
             ELSE buchholz_memo[c]]

\* self._stats after _get_buchholz_scores(round): _get_stats is reached only
\* when the Buchholz table is not memoised.
StatsMemoAfterGetBuchholz(cutoff) ==
    IF cutoff \in DOMAIN buchholz_memo THEN stats_memo ELSE MemoAfterGetStats(cutoff)

\* _get_direct_match_wins(player_id, tied_player_ids, round)
GetDirectMatchWins(player_id, tied_player_ids, cutoff) ==
    Cardinality({i \in CompletedUntil(cutoff) :
                    /\ Involves(matches[i], player_id)
                    /\ \/ matches[i].player1 \in tied_player_ids
                       \/ matches[i].player2 \in tied_player_ids
                    /\ matches[i].winner = player_id})

\* _get_played_matches(round): both orders of every completed match up to
\* the cutoff.
GetPlayedMatches(cutoff) ==
    {<<matches[i].player1, matches[i].player2>> : i \in CompletedUntil(cutoff)}
    \cup {<<matches[i].player2, matches[i].player1>> : i \in CompletedUntil(cutoff)}

\* The played_matches property.
PlayedMatches == GetPlayedMatches(RoundsCompleted)

(***************************************************************************)
(* SwissSystemGroup                                                        *)
(***************************************************************************)
TopHalf(ps) == SubSeq(ps, 1, Len(ps) \div 2)

BottomHalf_Overlap(ps) == SubSeq(ps, Len(ps) \div 2, Len(ps))

BottomHalf(ps) == SubSeq(ps, (Len(ps) \div 2) + 1, Len(ps))

\* zip(top_half, bottom_half) turned into matches of round r.
Zip(top, bottom, r) ==
    [i \in 1..(IF Len(top) <= Len(bottom) THEN Len(top) ELSE Len(bottom)) |->
        NewMatch(top[i], bottom[i], r)]

RemoveAt(seq, i) == SubSeq(seq, 1, i - 1) \o SubSeq(seq, i + 1, Len(seq))

\* The test gen_next_round applies to a potential opponent.
Eligible(p1, opp, played, excluded) ==
    /\ opp # NoneId
    /\ <<p1, opp>> \notin played
    /\ <<p1, opp>> \notin excluded

\* The while loop of gen_next_round over the remaining sorted players.
RECURSIVE Pair(_, _, _)
Pair(sorted_players, played, excluded) ==
    IF Len(sorted_players) <= 1 THEN <<>>
    ELSE LET p1     == Head(sorted_players)
             others == Tail(sorted_players)
             found  == {i \in DOMAIN others :
                           Eligible(p1, others[i], played, excluded)}
         IN  IF found # {}
             THEN <<NewMatch(p1, others[Min(found)], NoneId)>>
                  \o Pair(RemoveAt(others, Min(found)), played, excluded)
             ELSE IF p1 # NoneId
             THEN <<NewMatch(p1, NoneId, NoneId)>> \o Pair(others, played, excluded)
             ELSE Pair(others, played, excluded)

\* sort_key of _get_ranking, from the stats table st and the Buchholz table bz.
SortKey(p, st, bz) ==
    <<st[p].wins, bz[p], st[p].set_difference, 0 - p, st[p].ball_difference>>

\* a >= b for Python tuples of one length.
RECURSIVE TupleGE(_, _)
TupleGE(a, b) ==
    IF a = <<>> THEN TRUE
    ELSE IF a[1] # b[1] THEN a[1] > b[1]
    ELSE TupleGE(Tail(a), Tail(b))

\* list.sort(key=sort_key, reverse=True) with tuple keys.
RECURSIVE SortDescTuples(_, _)
SortDescTuples(seq, key) ==
    IF seq = <<>> THEN <<>>
    ELSE LET init == SortDescTuples(SubSeq(seq, 1, Len(seq) - 1), key)
             x    == seq[Len(seq)]
             k    == Cardinality({i \in DOMAIN init : TupleGE(key[init[i]], key[x])})
         IN  SubSeq(init, 1, k) \o <<x>> \o SubSeq(init, k + 1, Len(init))

\* The inner while loop: the last index of the run of players that starts at i
\* and is tied on wins and Buchholz.
RECURSIVE RunEnd(_, _, _, _)
RunEnd(ps, i, st, bz) ==
    IF /\ i + 1 <= Len(ps)
       /\ st[ps[i]].wins = st[ps[i + 1]].wins
       /\ bz[ps[i]] = bz[ps[i + 1]]
    THEN RunEnd(ps, i + 1, st, bz)
    ELSE i

\* all_played: every two tied players have a completed match up to the cutoff.
AllPlayed(tied_players, cutoff) ==
    \A p1 \in Range(tied_players) : \A p2 \in Range(tied_players) :
        p1 # p2 =>
            \E i \in CompletedUntil(cutoff) :
                {matches[i].player1, matches[i].player2} = {p1, p2}

\* The outer while loop of _get_ranking from index i on.
RECURSIVE ResolveTies(_, _, _, _, _)
ResolveTies(ps, i, st, bz, cutoff) ==
    IF i > Len(ps) THEN ps
    ELSE LET j      == RunEnd(ps, i, st, bz)
             tied   == SubSeq(ps, i, j)
             direct == [p \in Range(tied) |->
                           GetDirectMatchWins(p, Range(tied), cutoff)]
             next   == IF j > i /\ AllPlayed(tied, cutoff)
                       THEN SubSeq(ps, 1, i - 1) \o SortDesc(tied, direct)
                                \o SubSeq(ps, j + 1, Len(ps))
                       ELSE ps
         IN  ResolveTies(next, j + 1, st, bz, cutoff)

\* _get_ranking(round) over given stats and Buchholz tables.
RankingWith(st, bz, cutoff) ==
    ResolveTies(SortDescTuples(players, [p \in Range(players) |-> SortKey(p, st, bz)]),
                1, st, bz, cutoff)

\* _get_ranking(round): the tables come through the memos.
GetRanking(cutoff) == RankingWith(GetStats(cutoff), GetBuchholzScores(cutoff), cutoff)

(***************************************************************************)
(* Spec: a Swiss group and its driver                                      *)
(***************************************************************************)
MaxPlayers == 4      \* players of the group: 2..MaxPlayers
MaxRounds == 2       \* gen_matches calls
MaxGroupSets == 2    \* sets submitted to the group's matches, in total
MaxExcluded == 1     \* pairs put into excluded_matches

\* Ratings the players are created with: rising with the id, and two levels.
RatingTables(n) == { [p \in 1..n |-> p], [p \in 1..n |-> p % 2] }

GroupScores == { Tup(11, 9), Tup(9, 11) }

NoGen == [kind |-> "none", played |-> {}, excluded |-> {}, built |-> <<>>]

\* SwissSystemGroup.__init__ / BaseGroup.__init__
InitGroup ==
    \E n \in 2..MaxPlayers :
        \E sc \in RatingTables(n) :
            /\ players = SortDesc([i \in 1..n |-> i], sc)
            /\ score = sc
            /\ round = 0
            /\ matches = <<>>
            /\ excluded_matches = {}
            /\ stats_memo = <<>>
            /\ lastGen = NoGen
            /\ buchholz_memo = <<>>
            /\ rounds = <<>>

IdleGroup ==
    /\ players = <<>>
    /\ score = <<>>
    /\ round = 0
    /\ matches = <<>>
    /\ excluded_matches = {}
    /\ stats_memo = <<>>
    /\ lastGen = NoGen
    /\ buchholz_memo = <<>>
    /\ rounds = <<>>

GenFirstRound ==
    /\ round = 0
    /\ \E f \in Permutations(DOMAIN BottomHalf(players)) :
          LET top_half    == SortDesc(TopHalf(players), score)
              bottom_half == [i \in DOMAIN f |-> BottomHalf(players)[f[i]]]
              built       == Zip(top_half, bottom_half, round + 1)
          IN  /\ round' = round + 1
              /\ matches' = matches \o built
              /\ lastGen' = [kind |-> "first", played |-> {},
                             excluded |-> excluded_matches, built |-> built]
    /\ UNCHANGED <<players, score, excluded_matches, stats_memo, buchholz_memo, rounds>>

GenNextRound ==
    /\ round # 0
    /\ round < MaxRounds
    /\ LET wins   == [p \in Range(players) |-> GetStats(RoundsCompleted)[p].wins]
           sorted == SortDesc(players, wins)
           seated == IF Len(sorted) % 2 = 1 THEN Append(sorted, NoneId) ELSE sorted
           built  == Pair(seated, PlayedMatches, excluded_matches)
       IN  /\ matches' = matches \o built
           /\ round' = round + 1
           /\ stats_memo' = MemoAfterGetStats(RoundsCompleted)
           /\ lastGen' = [kind |-> "next", played |-> PlayedMatches,
                          excluded |-> excluded_matches, built |-> built]
    /\ UNCHANGED <<players, score, excluded_matches, buchholz_memo, rounds>>

\* SwissSystemGroup.gen_matches
GenMatches == GenFirstRound \/ GenNextRound

TotalSets == SumOver(DOMAIN matches, [i \in DOMAIN matches |-> Len(matches[i].sets)])

\* The driver submits a set to one of the group's matches (Match.add_set),
\* while fewer than limit sets are stored.
SubmitSetWithin(limit) ==
    \E i \in DOMAIN matches :
        \E sc \in GroupScores :
            /\ matches[i].player2 # NoneId
            /\ TotalSets < limit
            /\ matches' = [matches EXCEPT ![i] = AddSet(@, sc).m]
            /\ UNCHANGED <<players, score, round, excluded_matches, stats_memo, lastGen, buchholz_memo, rounds>>

SubmitSet == SubmitSetWithin(MaxGroupSets)

\* Pairs the driver may put into excluded_matches: the two top-rated players,
\* in either order.
ExcludedInputs == IF Len(players) < 2 THEN {}
                  ELSE { <<players[1], players[2]>>, <<players[2], players[1]>> }

\* The driver puts a pair into excluded_matches.
AddExcluded ==
    \E pair \in ExcludedInputs :
        /\ Cardinality(excluded_matches) < MaxExcluded
        /\ pair \notin excluded_matches
        /\ excluded_matches' = excluded_matches \cup {pair}
        /\ UNCHANGED <<players, score, round, matches, stats_memo, lastGen, buchholz_memo, rounds>>

\* The stats property: _get_stats() at the default cutoff.  Without matches
\* matches_df has no column to filter on and the call raises.
QueryStats ==
    /\ Len(matches) > 0
    /\ stats_memo' = MemoAfterGetStats(RoundsCompleted)
    /\ UNCHANGED <<players, score, round, matches, excluded_matches, lastGen, buchholz_memo, rounds>>

(***************************************************************************)
(* SpecRank: a group whose matches the driver has scheduled, round numbers  *)
(* included (Match(p1, p2, round) appended to BaseGroup.matches), and the   *)
(* stats, Buchholz and ranking queries on it                                *)
(***************************************************************************)
MaxScheduled == 3    \* matches the driver schedules
MaxRankSets == 3     \* sets submitted to them, in total

\* All pairs of n players, every player against each later one, in order.
PairSeq(n) ==
    LET P == {pr \in (1..n) \X (1..n) : pr[1] < pr[2]}
        before(pr) == {q \in P : q[1] < pr[1] \/ (q[1] = pr[1] /\ q[2] < pr[2])}
    IN  [k \in 1..Cardinality(P) |-> CHOOSE pr \in P : Cardinality(before(pr)) = k - 1]

\* The schedules of the driver: the first pairs of the all-play-all order, and
\* the same with the last match a return match of the first.
ScheduleInputs(n) ==
    LET k    == Min({MaxScheduled, Len(PairSeq(n))})
        base == SubSeq(PairSeq(n), 1, k)
    IN  { base, [base EXCEPT ![k] = <<base[1][2], base[1][1]>>] }

InitRank ==
    \E n \in 3..MaxPlayers :
        \E sc \in RatingTables(n) :
            \E sch \in ScheduleInputs(n) :
                /\ players = SortDesc([i \in 1..n |-> i], sc)
                /\ score = sc
                /\ matches = [k \in DOMAIN sch |->
                                 NewMatch(sch[k][1], sch[k][2],
                                          ((k - 1) \div (n \div 2)) + 1)]
                /\ round = ((Len(sch) - 1) \div (n \div 2)) + 1
                /\ excluded_matches = {}
                /\ stats_memo = <<>>
                /\ lastGen = NoGen
                /\ buchholz_memo = <<>>
                /\ rounds = <<>>

SubmitRankSet == SubmitSetWithin(MaxRankSets)

\* The cutoffs the driver queries: the default (rounds_completed) and the
\* last scheduled round.
QueryCutoffs == {RoundsCompleted, round}

\* _get_buchholz_scores(round)
QueryBuchholz ==
    \E c \in QueryCutoffs :
        /\ buchholz_memo' = BuchholzMemoAfterGet(c)
        /\ stats_memo' = StatsMemoAfterGetBuchholz(c)
        /\ UNCHANGED <<players, score, round, matches, excluded_matches, lastGen, rounds>>

\* _get_ranking(round): returns GetRanking(c); sort_key reads the stats and
\* the Buchholz table, which memoises both.
QueryRanking ==
    \E c \in QueryCutoffs :
        /\ stats_memo' = MemoAfterGetStats(c)
        /\ buchholz_memo' = BuchholzMemoAfterGet(c)
        /\ UNCHANGED <<players, score, round, matches, excluded_matches, lastGen, rounds>>

(***************************************************************************)
(* SpecBerger: the Berger table of group.py (_generate_berger_table_matches,*)
(* kept in the file as a commented-out method) and its driver               *)
(***************************************************************************)
MaxBergerPlayers == 6    \* players of the group: 2..MaxBergerPlayers

\* players.insert(1, players.pop()), turning the whole line instead
Rotate_WholeLine(line) ==
    <<line[Len(line)]>> \o SubSeq(line, 1, Len(line) - 1)

\* players.insert(1, players.pop())
Rotate(line) ==
    <<line[1]>> \o <<line[Len(line)]>> \o SubSeq(line, 2, Len(line) - 1)

\* The inner for loop: position i against position n - 1 - i for i in
\* range(n // 2), a match for each pair without None.
RoundMatches(line, n) ==
    LET pairs == [i \in 1..(n \div 2) |-> NewMatch(line[i], line[n + 1 - i], NoneId)]
        real(m) == m.player1 # NoneId /\ m.player2 # NoneId
    IN  SelectSeq(pairs, real)

\* The outer for loop, k rounds to go.
RECURSIVE BergerRounds(_, _, _)
BergerRounds(line, n, k) ==
    IF k = 0 THEN <<>>
    ELSE <<RoundMatches(line, n)>> \o BergerRounds(Rotate(line), n, k - 1)

\* [match for round in rounds for match in round]
RECURSIVE Flatten(_)
Flatten(rs) == IF rs = <<>> THEN <<>> ELSE Head(rs) \o Flatten(Tail(rs))

InitBerger ==
    \E n \in 2..MaxBergerPlayers :
        \E sc \in RatingTables(n) :
            /\ players = SortDesc([i \in 1..n |-> i], sc)
            /\ score = sc
            /\ round = 0
            /\ matches = <<>>
            /\ excluded_matches = {}
            /\ stats_memo = <<>>
            /\ lastGen = NoGen
            /\ buchholz_memo = <<>>
            /\ rounds = <<>>

\* _generate_berger_table_matches()
GenerateBergerTableMatches ==
    LET n    == Len(players)
        line == IF n % 2 = 1 THEN Append(players, NoneId) ELSE players
        rs   == BergerRounds(line, n, n - 1)
    IN  /\ round \div (n - 1) < MaxRounds
        /\ rounds' = rs
        /\ round' = round + (n - 1)
        /\ matches' = Flatten(rs)
        /\ UNCHANGED <<players, score, excluded_matches, stats_memo, lastGen, buchholz_memo>>

(***************************************************************************)
(* Claims about the Swiss group                                            *)
(***************************************************************************)
\* The matches of the last generated round that have two players.
RealBuilt == {i \in DOMAIN lastGen.built : lastGen.built[i].player2 # NoneId}

ByeBuilt == {i \in DOMAIN lastGen.built : lastGen.built[i].player2 = NoneId}

UnorderedIn(a, b, S) == <<a, b>> \in S \/ <<b, a>> \in S

\* C6: in every Swiss round after the first, no generated match pairs two
\* competitors whose pair is in played_matches or in excluded_matches, and a
\* competitor left without a legal opponent receives a bye.
C6_NoRepeatOrBye ==
    lastGen.kind = "next" =>
        /\ \A i \in RealBuilt :
              /\ ~UnorderedIn(lastGen.built[i].player1, lastGen.built[i].player2,
                              lastGen.played)
              /\ ~UnorderedIn(lastGen.built[i].player1, lastGen.built[i].player2,
                              lastGen.excluded)
        /\ \A p \in Range(players) :
              (\A i \in RealBuilt : ~Involves(lastGen.built[i], p))
                  => \E i \in ByeBuilt : lastGen.built[i].player1 = p

\* C7: a pair recorded in excluded_matches, in either order, is never paired
\* by gen_next_round, whichever of the two players is taken first.
C7_ExcludedPairNeverScheduled ==
    lastGen.kind = "next" =>
        \A i \in RealBuilt :
            /\ <<lastGen.built[i].player1, lastGen.built[i].player2>> \notin lastGen.excluded
            /\ <<lastGen.built[i].player2, lastGen.built[i].player1>> \notin lastGen.excluded

\* C8: the played-pairs view holds the pair a, b in both orders exactly when
\* some match generated so far between a and b is completed.
C8_PlayedPairsFollowMatches ==
    \A a \in Range(players) :
        \A b \in Range(players) \ {a} :
            (<<a, b>> \in PlayedMatches /\ <<b, a>> \in PlayedMatches)
                <=> \E i \in DOMAIN matches :
                        /\ IsCompleted(matches[i])
                        /\ {matches[i].player1, matches[i].player2} = {a, b}

\* C9: in every generated round, first or later, each competitor of the group
\* is in exactly one entry: one match or one bye.
C9_EveryoneAssignedOnce ==
    lastGen.kind # "none" =>
        \A p \in Range(players) :
            Cardinality({i \in DOMAIN lastGen.built : Involves(lastGen.built[i], p)}) = 1

\* C10: the first round pairs the i-th competitor of the top half of the
\* rating-sorted list (split at floor(n/2)) with a competitor of the bottom
\* half, and no competitor is in two matches.
C10_FirstRoundTopVsBottom ==
    lastGen.kind = "first" =>
        LET n == Len(players)
            h == n \div 2
        IN  /\ \A i \in 1..n : \A j \in i..n : score[players[i]] >= score[players[j]]
            /\ Len(lastGen.built) = h
            /\ \A i \in 1..h :
                  /\ lastGen.built[i].player1 = players[i]
                  /\ \E j \in (h + 1)..n : lastGen.built[i].player2 = players[j]
            /\ \A p \in Range(players) :
                  Cardinality({i \in DOMAIN lastGen.built :
                                  Involves(lastGen.built[i], p)}) <= 1

\* A first round of two matches in which the shuffle moved the bottom half.
C10_Witness ==
    /\ lastGen.kind = "first"
    /\ Len(players) = 4
    /\ Len(lastGen.built) = 2
    /\ lastGen.built[1].player2 = players[4]
    /\ lastGen.built[2].player2 = players[3]

\* C22: every gen_matches call raises the round counter by one (the k-th
\* call leaves it at k), every match the call adds carries the new round
\* number, and the matches of earlier calls stay as and where they were.
C22_RoundNumbers ==
    [][round' # round =>
          /\ round' = round + 1
          /\ Len(matches') >= Len(matches)
          /\ SubSeq(matches', 1, Len(matches)) = matches
          /\ \A i \in (Len(matches) + 1)..Len(matches') : matches'[i].round = round']_vars

(***************************************************************************)
(* Claims about the stats of the group                                     *)
(***************************************************************************)
\* The cutoffs a query can name: None / 0 and the round numbers so far.
Cutoffs == 0..round

\* C11: for any interleaving of round generation, result submission and
\* queries, the stats a query gets for a cutoff through the memo equal the
\* stats recomputed from the current matches with the memo bypassed.
C11_MemoEqualsRecomputed ==
    \A c \in Cutoffs : GetStats(c) = ComputeStats(c)

\* The completed matches of rounds <= r that involve p.
RefMatches(p, r) ==
    {i \in DOMAIN matches :
        /\ IsCompleted(matches[i])
        /\ matches[i].round \in 1..r
        /\ p \in {matches[i].player1, matches[i].player2}}

\* Points of p (mine = TRUE) or of p's opponent in match i, over its sets.
RefPoints(i, p, mine) ==
    LET side == IF (matches[i].player1 = p) = mine THEN 1 ELSE 2
    IN  SumOver(DOMAIN matches[i].sets,
                [k \in DOMAIN matches[i].sets |-> matches[i].sets[k][side]])

RefSets(i, p, mine) ==
    LET side == IF (matches[i].player1 = p) = mine THEN 1 ELSE 2
    IN  WonSets(matches[i].sets, side)

RefStats(p, r) ==
    LET ms == RefMatches(p, r)
        sw == SumOver(ms, [i \in ms |-> RefSets(i, p, TRUE)])
        sl == SumOver(ms, [i \in ms |-> RefSets(i, p, FALSE)])
        bw == SumOver(ms, [i \in ms |-> RefPoints(i, p, TRUE)])
        bl == SumOver(ms, [i \in ms |-> RefPoints(i, p, FALSE)])
    IN  [wins |-> Cardinality({i \in ms : matches[i].winner = p}),
         losses |-> Cardinality({i \in ms : matches[i].looser = p}),
         sets_won |-> sw, sets_lost |-> sl,
         balls_won |-> bw, balls_lost |-> bl,
         set_difference |-> sw - sl, ball_difference |-> bw - bl]

\* C12: for every competitor p and cutoff r the aggregated stats are the
\* reference over the completed matches of rounds <= r that involve p: wins,
\* losses, sets and points won and lost by p's side, and the two differences.
C12_StatsAreReference ==
    \A r \in Cutoffs : \A p \in Range(players) : ComputeStats(r)[p] = RefStats(p, r)

\* The completed matches of rounds <= r.
RefCompleted(r) ==
    {i \in DOMAIN matches : IsCompleted(matches[i]) /\ matches[i].round \in 1..r}

\* C26: at every cutoff r the stats are zero-sum: over all competitors the wins
\* and the losses each add up to the number of completed matches of rounds
\* <= r, the set differences and the ball differences each add up to 0, and
\* each competitor's wins + losses is the number of completed matches of rounds
\* <= r that the competitor played.
C26_StatsZeroSum ==
    \A r \in Cutoffs :
        LET st == GetStats(r)
            ps == Range(players)
        IN  /\ SumOver(ps, [p \in ps |-> st[p].wins]) = Cardinality(RefCompleted(r))
            /\ SumOver(ps, [p \in ps |-> st[p].losses]) = Cardinality(RefCompleted(r))
            /\ SumOver(ps, [p \in ps |-> st[p].set_difference]) = 0
            /\ SumOver(ps, [p \in ps |-> st[p].ball_difference]) = 0
            /\ \A p \in ps : st[p].wins + st[p].losses = Cardinality(RefMatches(p, r))

\* C27: rounds_completed is 0 when the group has no matches, never exceeds
\* the number of rounds generated, every match of a round numbered
\* 1..rounds_completed is completed (a bye among them included), and it never
\* decreases when a result is submitted.
C27_RoundsCompleted ==
    /\ [](/\ Len(matches) = 0 => RoundsCompleted = 0
          /\ RoundsCompleted <= round
          /\ \A r \in 1..RoundsCompleted :
                \A i \in DOMAIN matches :
                    matches[i].round = r => IsCompleted(matches[i]))
    /\ [][(matches' # matches /\ round' = round) =>
              RoundsCompleted' >= RoundsCompleted]_vars

RefWins(p, r) == Cardinality({i \in RefMatches(p, r) : matches[i].winner = p})

\* The distinct opponents p has met in completed matches of rounds <= r.
RefOpponents(p, r) ==
    {IF matches[i].player1 = p THEN matches[i].player2 ELSE matches[i].player1 :
        i \in RefMatches(p, r)}

RefBuchholz(p, r) ==
    SumOver(RefOpponents(p, r), [o \in RefOpponents(p, r) |-> RefWins(o, r)])

\* C13: for every competitor p and cutoff r the Buchholz score is the sum,
\* over the distinct opponents p has met in completed matches of rounds <= r
\* (each counted once), of the opponent's wins as of the same cutoff.
C13_BuchholzIsOpponentWins ==
    \A r \in Cutoffs : \A p \in Range(players) :
        GetBuchholzScores(r)[p] = RefBuchholz(p, r)

(***************************************************************************)
(* Claims about the Swiss ranking                                          *)
(***************************************************************************)
RefTied(a, b, r) ==
    RefWins(a, r) = RefWins(b, r) /\ RefBuchholz(a, r) = RefBuchholz(b, r)

\* The indices of the maximal run of L, tied on wins and Buchholz, around k.
RunIdx(L, k, r) ==
    {m \in DOMAIN L :
        \A x \in Min({m, k})..(Max({m, k}) - 1) : RefTied(L[x], L[x + 1], r)}

RunPlayers(L, k, r) == {L[m] : m \in RunIdx(L, k, r)}

\* Every two members of the run have a completed match of rounds <= r.
HeadToHeadComplete(run, r) ==
    \A a \in run : \A b \in run \ {a} : b \in RefOpponents(a, r)

\* The wins of p against the other members of the run.
RunWins(p, run, r) ==
    Cardinality({i \in RefMatches(p, r) :
                    /\ matches[i].winner = p
                    /\ {matches[i].player1, matches[i].player2} \ {p} \subseteq run \ {p}})

\* The order of the primary sort below wins and Buchholz: set difference
\* descending, then the identifier.
PrimaryBefore(a, b, r) ==
    \/ RefStats(a, r).set_difference > RefStats(b, r).set_difference
    \/ /\ RefStats(a, r).set_difference = RefStats(b, r).set_difference
       /\ a < b

\* C14: in the ranking, a maximal run tied on wins and Buchholz whose members
\* have all met in completed matches is ordered by the wins against the other
\* members of the run, descending; any other run keeps the primary order.
C14_TiedRunByDirectWins ==
    \A r \in Cutoffs :
        LET L == GetRanking(r)
        IN  \A k \in 1..(Len(L) - 1) :
                RefTied(L[k], L[k + 1], r) =>
                    LET run == RunPlayers(L, k, r)
                    IN  IF HeadToHeadComplete(run, r)
                        THEN RunWins(L[k], run, r) >= RunWins(L[k + 1], run, r)
                        ELSE PrimaryBefore(L[k], L[k + 1], r)

\* C15: the ranking as of any cutoff is ordered by wins descending, then by
\* Buchholz descending, and inside a run that is not settled by direct
\* encounters by set difference descending, then by the identifier; so nobody
\* stands below a competitor with fewer wins.
C15_RankingOrder ==
    \A r \in Cutoffs :
        LET L == GetRanking(r)
        IN  /\ \A k \in 1..(Len(L) - 1) :
                   \/ RefWins(L[k], r) > RefWins(L[k + 1], r)
                   \/ /\ RefWins(L[k], r) = RefWins(L[k + 1], r)
                      /\ RefBuchholz(L[k], r) > RefBuchholz(L[k + 1], r)
                   \/ /\ RefTied(L[k], L[k + 1], r)
                      /\ \/ HeadToHeadComplete(RunPlayers(L, k, r), r)
                         \/ PrimaryBefore(L[k], L[k + 1], r)
            /\ \A i \in DOMAIN L : \A j \in DOMAIN L :
                   i < j => RefWins(L[i], r) >= RefWins(L[j], r)

\* C16: with the zero-round cutoff the ranking is the initial rating order of
\* the competitors, as the group's construction left it.
C16_ZeroRoundRankingIsRatingOrder ==
    GetRanking(NoneId) = players

FullyScored == \A i \in DOMAIN matches : IsCompleted(matches[i])

\* C17: with every match scored, the ranking is a function of the competitors
\* and the match results alone: it is the ranking computed from the current
\* matches, whatever was queried or cached before.
C17_RankingDependsOnResultsOnly ==
    FullyScored =>
        \A r \in Cutoffs :
            GetRanking(r) = RankingWith(ComputeStats(r),
                                        ComputeBuchholz(r, ComputeStats(r)), r)

(***************************************************************************)
(* Claims about the Berger table                                           *)
(***************************************************************************)
\* The places (round, index) of the table where a and b are paired.
Meetings(a, b) ==
    {pos \in {<<r, i>> : r \in DOMAIN rounds, i \in 1..Len(players)} :
        /\ pos[2] \in DOMAIN rounds[pos[1]]
        /\ {rounds[pos[1]][pos[2]].player1, rounds[pos[1]][pos[2]].player2} = {a, b}}

EveryPairOnce ==
    \A a \in Range(players) : \A b \in Range(players) :
        a # b => Cardinality(Meetings(a, b)) = 1

\* The rounds in which p has no match.
RoundsOut(p) ==
    {r \in DOMAIN rounds :
        \A i \in DOMAIN rounds[r] : ~Involves(rounds[r][i], p)}

C19_BergerOdd ==
    (round > 0 /\ Len(players) % 2 = 1) =>
        /\ Len(rounds) = Len(players)
        /\ \A r \in DOMAIN rounds : \A i \in DOMAIN rounds[r] :
               /\ rounds[r][i].player1 # NoneId
               /\ rounds[r][i].player2 # NoneId
        /\ EveryPairOnce
        /\ \A p \in Range(players) : Cardinality(RoundsOut(p)) = 1

(***************************************************************************)
(* Specifications                                                          *)
(***************************************************************************)
NextSet ==
    \/ CallIsValid /\ UNCHANGED matchVars /\ UNCHANGED groupVars /\ UNCHANGED playerVars
    \/ CallWinner /\ UNCHANGED matchVars /\ UNCHANGED groupVars /\ UNCHANGED playerVars
    \/ CallFromString /\ UNCHANGED matchVars /\ UNCHANGED groupVars /\ UNCHANGED playerVars

InitSetSpec == InitSet /\ IdleMatch /\ IdleGroup /\ IdlePlayer

SpecSet == InitSetSpec /\ [][NextSet]_vars

NextMatch ==
    \/ MatchAddSet /\ UNCHANGED setVars /\ UNCHANGED groupVars /\ UNCHANGED playerVars
    \/ MatchSetSets /\ UNCHANGED setVars /\ UNCHANGED groupVars /\ UNCHANGED playerVars

InitMatchSpec == IdleSet /\ InitMatch /\ IdleGroup /\ IdlePlayer

SpecMatch == InitMatchSpec /\ [][NextMatch]_vars

Next ==
    \/ GenMatches /\ UNCHANGED setVars /\ UNCHANGED matchVars /\ UNCHANGED playerVars
    \/ SubmitSet /\ UNCHANGED setVars /\ UNCHANGED matchVars /\ UNCHANGED playerVars
    \/ AddExcluded /\ UNCHANGED setVars /\ UNCHANGED matchVars /\ UNCHANGED playerVars
    \/ QueryStats /\ UNCHANGED setVars /\ UNCHANGED matchVars /\ UNCHANGED playerVars

Init == IdleSet /\ IdleMatch /\ InitGroup /\ IdlePlayer

Spec == Init /\ [][Next]_vars

NextRank == \/ SubmitRankSet /\ UNCHANGED setVars /\ UNCHANGED matchVars /\ UNCHANGED playerVars
            \/ QueryBuchholz /\ UNCHANGED setVars /\ UNCHANGED matchVars /\ UNCHANGED playerVars
            \/ QueryRanking /\ UNCHANGED setVars /\ UNCHANGED matchVars /\ UNCHANGED playerVars

InitRankSpec == IdleSet /\ IdleMatch /\ InitRank /\ IdlePlayer

SpecRank == InitRankSpec /\ [][NextRank]_vars

NextBerger == \/ GenerateBergerTableMatches /\ UNCHANGED setVars /\ UNCHANGED matchVars /\ UNCHANGED playerVars
              \/ SubmitSet /\ UNCHANGED setVars /\ UNCHANGED matchVars /\ UNCHANGED playerVars

InitBergerSpec == IdleSet /\ IdleMatch /\ InitBerger /\ IdlePlayer

SpecBerger == InitBergerSpec /\ [][NextBerger]_vars

NextPlayer ==
    \/ PlayerRoundTrip /\ UNCHANGED setVars /\ UNCHANGED matchVars /\ UNCHANGED groupVars

InitPlayerSpec == IdleSet /\ IdleMatch /\ IdleGroup /\ InitPlayer

SpecPlayer == InitPlayerSpec /\ [][NextPlayer]_vars

====
